---- MODULE Spec2Model ----
\* Model of gitlab-codeowners/codeowners.py: the CODEOWNERS.md parser, the
\* upward directory walk and the approval validation of CodeownersChecker.
EXTENDS Integers, Sequences, FiniteSets, TLC

\* ------------------------------------------------------------------ bounds
MaxDepth == 2        \* directory segments of a changed-file path
FsDepth == 2         \* depth of the directory tree below the project directory
MaxErrors == 1       \* manifests that exist but cannot be read
MaxChanges == 1      \* entries of the "changes" list of the API answer
MaxApprovals == 1    \* entries of the "approved_by" list of the API answer
MaxText == 5         \* characters of a manifest text given to the parser
MaxLog == 12         \* entries kept in the logs of a run that never ends

\* ------------------------------------------------------------ small helpers
RECURSIVE SeqsUpTo(_, _)
SeqsUpTo(S, n) ==
  IF n = 0 THEN {<<>>}
  ELSE LET shorter == SeqsUpTo(S, n - 1)
       IN shorter \cup {Append(s, x) : s \in shorter, x \in S}

Range(s) == {s[i] : i \in 1..Len(s)}

IsPrefix(p, s) == Len(p) <= Len(s) /\ SubSeq(s, 1, Len(p)) = p

Front(s) == SubSeq(s, 1, Len(s) - 1)

\* a log that stops growing at MaxLog entries
Logged(log, e) == IF Len(log) < MaxLog THEN Append(log, e) ELSE log

\* a missing JSON value: a username, a path
None == <<"None">>
NoPath == [slashes |-> 0 - 1, segs |-> <<>>]

\* ------------------------------------------------------------------- parser
Whitespace == {" ", "\t"}
Newline == "\n"

\* str.splitlines(): the lines of the text, without a trailing empty line
RECURSIVE SplitLines(_, _)
SplitLines(content, cur) ==
  IF content = <<>> THEN (IF cur = <<>> THEN <<>> ELSE <<cur>>)
  ELSE IF Head(content) = Newline THEN <<cur>> \o SplitLines(Tail(content), <<>>)
  ELSE SplitLines(Tail(content), Append(cur, Head(content)))

\* str.strip()
RECURSIVE LStrip(_)
LStrip(line) ==
  IF line # <<>> /\ Head(line) \in Whitespace THEN LStrip(Tail(line)) ELSE line

RECURSIVE RStrip(_)
RStrip(line) ==
  IF line # <<>> /\ line[Len(line)] \in Whitespace THEN RStrip(Front(line)) ELSE line

Strip(line) == RStrip(LStrip(line))

\* str.split(): the whitespace-separated words of a line
RECURSIVE Split(_, _)
Split(line, cur) ==
  IF line = <<>> THEN (IF cur = <<>> THEN <<>> ELSE <<cur>>)
  ELSE IF Head(line) \in Whitespace
       THEN (IF cur = <<>> THEN <<>> ELSE <<cur>>) \o Split(Tail(line), <<>>)
       ELSE Split(Tail(line), Append(cur, Head(line)))

\* the parser with only '/' taken for a path pattern
WordOwners_KeepsGlob(word) ==
  IF Head(word) = "@" THEN {Tail(word)}
  ELSE IF Head(word) # "/" THEN {word}
  ELSE {}

\* codeowners.py:104-109, the owners one word adds
WordOwners(word) ==
  IF Head(word) = "@" THEN {Tail(word)}
  ELSE IF Head(word) # "/" /\ Head(word) # "*" THEN {word}
  ELSE {}

\* codeowners.py:97-109, the owners one line adds
LineOwners(rawline) ==
  LET line == Strip(rawline)
  IN IF line = <<>> \/ Head(line) = "#" THEN {}
     ELSE LET words == Split(line, <<>>)
          IN UNION {WordOwners(words[i]) : i \in 1..Len(words)}

\* codeowners.py:94-111, the owner set of a manifest text
ParseOwners(content) ==
  LET lines == SplitLines(content, <<>>)
  IN UNION {LineOwners(lines[i]) : i \in 1..Len(lines)}

\* -------------------------------------------------------------------- paths
\* A path string is (number of leading slashes, segments between slashes).
\* pathlib keeps one anchor "/" for one or for three and more leading
\* slashes, the anchor "//" for exactly two, and drops "." segments.
PathOf(raw) ==
  [anchor |-> IF raw.slashes = 0 THEN ""
              ELSE IF raw.slashes = 2 THEN "//" ELSE "/",
   parts  |-> SelectSeq(raw.segs, LAMBDA s : s # ".")]

\* PurePath.parent
Parent(p) == IF p.parts = <<>> THEN p ELSE [p EXCEPT !.parts = Front(p.parts)]

PathDot == [anchor |-> "", parts |-> <<>>]      \* Path('.')
PathSlash == [anchor |-> "/", parts |-> <<>>]   \* Path('/')

\* CI_PROJECT_DIR, the directory /r
ProjectDir == <<"r">>

\* os.path.join(ci_project_dir, current_path, 'CODEOWNERS.md'): the directory
\* part of the joined name; an absolute second component drops the first
JoinManifest(p) ==
  IF p.anchor # "" THEN [anchor |-> p.anchor, segs |-> p.parts]
  ELSE [anchor |-> "/",
        segs |-> ProjectDir \o (IF p.parts = <<>> THEN <<".">> ELSE p.parts)]

\* os.path.join(ci_project_dir, 'CODEOWNERS.md')
RootManifest == [anchor |-> "/", segs |-> ProjectDir]

\* --------------------------------------------------------------- filesystem
Names == {"a"}

\* the directories that exist: "/", /a, /r and FsDepth levels below /r
Tree == {<<>>, <<"a">>} \cup {ProjectDir \o s : s \in SeqsUpTo(Names, FsDepth)}

NoEnt == <<"ENOENT">>

\* the directory the kernel opens for a joined name, or NoEnt
RECURSIVE ResolveFrom(_, _)
ResolveFrom(cur, segs) ==
  IF segs = <<>> THEN cur
  ELSE LET s == Head(segs)
           nxt == IF s = "." THEN cur
                  ELSE IF s = ".." THEN (IF cur = <<>> THEN cur ELSE Front(cur))
                  ELSE Append(cur, s)
       IN IF nxt \notin Tree THEN NoEnt ELSE ResolveFrom(nxt, Tail(segs))

OsResolve(joined) == ResolveFrom(<<>>, joined.segs)

\* the text of the manifest of each directory
ManifestText(d) ==
  IF d = ProjectDir THEN <<"@", "a">>
  ELSE IF IsPrefix(ProjectDir, d)
       THEN (IF Len(d) = Len(ProjectDir) + 1 THEN <<"/", "*", " ", "@", "b">>
             ELSE <<"#", "x", "\n", "c">>)
  ELSE IF d = <<>> THEN <<"@", "d">>
  ELSE <<"e">>

FsStates == {f \in [Tree -> {"absent", "ok", "error"}] :
               Cardinality({d \in Tree : f[d] = "error"}) <= MaxErrors}

\* ------------------------------------------------------------------- inputs
LeadingSlashes == {0, 1, 2, 3}
DirSegments == Names \cup {"..", "."}

EmptyRaw == [slashes |-> 0, segs |-> <<>>]      \* the path string ""

\* path strings in every form: "f", "a/f", "../f", "/a/f", "//a/f", "./a/../f", ""
RawPaths ==
  {[slashes |-> n, segs |-> Append(d, "f")] :
     n \in LeadingSlashes, d \in SeqsUpTo(DirSegments, MaxDepth)} \cup {EmptyRaw}

\* the paths the API of a well-formed repository reports: "f" and "a/f"
PlainPaths ==
  {[slashes |-> 0, segs |-> Append(d, "f")] : d \in {<<>>, <<"a">>}}

Usernames == {<<"a">>, <<"b">>, <<"z">>}

\* one resolution per run, over every path form and every filesystem
PathInputs ==
  {[fs |-> f, approvals_data |-> <<<<"b">>>>,
    changes |-> <<[new_path |-> p, old_path |-> NoPath]>>] :
     f \in FsStates, p \in RawPaths}

\* whole runs: approvals, renames and several files, manifests below /r only
RunInputs ==
  {[fs |-> f, approvals_data |-> a, changes |-> c] :
     f \in {g \in FsStates : \A d \in Tree :
               IF IsPrefix(ProjectDir, d) THEN g[d] # "error" ELSE g[d] = "absent"},
     a \in SeqsUpTo(Usernames \cup {None}, MaxApprovals),
     c \in SeqsUpTo([new_path : PlainPaths \cup {NoPath}, old_path : PlainPaths \cup {NoPath}],
                    MaxChanges)}

\* -------------------------------------------------------------------- state
VARIABLES
  pc,                \* the statement of validate_approvals about to run
  fs,                \* the manifests on disk
  approvals_data,    \* usernames of the "approved_by" entries of the API answer
  changes,           \* the "changes" entries of the API answer
  approvers,         \* validate_approvals.approvers
  changed_files,     \* validate_approvals.changed_files
  idx,               \* position of the loop over changed_files
  current_path,      \* get_codeowners_for_file.current_path
  all_owners,        \* get_codeowners_for_file.all_owners
  walk,              \* the directories the loop of the current file has queried
  reads,             \* every open() of the run, in order
  diag,              \* names printed by "Error reading CODEOWNERS file"
  verdicts,          \* per file: the owners found and the outcome printed
  validation_failed, \* validate_approvals.validation_failed
  result,            \* the value validate_approvals returns
  report,            \* the closing message printed
  content,           \* read_codeowners_file.content, when the parser runs alone
  owners             \* read_codeowners_file.owners, when the parser runs alone

vars == <<pc, fs, approvals_data, changes, approvers, changed_files, idx,
          current_path, all_owners, walk, reads, diag, verdicts,
          validation_failed, result, report, content, owners>>

inputs == <<fs, approvals_data, changes, content, owners>>
resolver == <<current_path, all_owners, walk, reads, diag>>

\* the reader with every failure swallowed without a message
ReadCodeownersFile_Silent(name) ==
  LET dir == OsResolve(name)
  IN IF dir = NoEnt THEN [owners |-> {}, dir |-> NoEnt, error |-> FALSE]
     ELSE IF fs[dir] = "ok"
          THEN [owners |-> ParseOwners(ManifestText(dir)), dir |-> dir, error |-> FALSE]
     ELSE [owners |-> {}, dir |-> dir, error |-> FALSE]

\* codeowners.py:88-116, one call of read_codeowners_file
ReadCodeownersFile(name) ==
  LET dir == OsResolve(name)
  IN IF dir = NoEnt THEN [owners |-> {}, dir |-> NoEnt, error |-> FALSE]
     ELSE IF fs[dir] = "absent" THEN [owners |-> {}, dir |-> dir, error |-> FALSE]
     ELSE IF fs[dir] = "error" THEN [owners |-> {}, dir |-> dir, error |-> TRUE]
     ELSE [owners |-> ParseOwners(ManifestText(dir)), dir |-> dir, error |-> FALSE]

\* `if x:` on a path string or None
Truthy(x) == x # NoPath /\ x # EmptyRaw

\* the changed-file list without the old paths of renames
RECURSIVE ChangedFilesOf_NewOnly(_)
ChangedFilesOf_NewOnly(cs) ==
  IF cs = <<>> THEN <<>>
  ELSE (IF Truthy(Head(cs).new_path) THEN <<Head(cs).new_path>> ELSE <<>>)
       \o ChangedFilesOf_NewOnly(Tail(cs))

\* codeowners.py:75-83
RECURSIVE ChangedFilesOf(_)
ChangedFilesOf(cs) ==
  IF cs = <<>> THEN <<>>
  ELSE LET change == Head(cs)
       IN (IF Truthy(change.new_path) THEN <<change.new_path>> ELSE <<>>)
          \o (IF Truthy(change.old_path) /\ change.old_path # change.new_path
               THEN <<change.old_path>> ELSE <<>>)
          \o ChangedFilesOf(Tail(cs))

\* codeowners.py:54-59
ApproversOf(data) == SelectSeq(data, LAMBDA u : u # None)

Init ==
  /\ \E i \in PathInputs \cup RunInputs :
       /\ fs = i.fs
       /\ approvals_data = i.approvals_data
       /\ changes = i.changes
  /\ pc = "details"
  /\ approvers = <<>>
  /\ changed_files = <<>>
  /\ idx = 0
  /\ current_path = PathDot
  /\ all_owners = {}
  /\ walk = <<>>
  /\ reads = <<>>
  /\ diag = {}
  /\ verdicts = <<>>
  /\ validation_failed = FALSE
  /\ result = "running"
  /\ report = "none"
  /\ content = <<>>
  /\ owners = {}

\* codeowners.py:31-39
GetMrDetails ==
  /\ pc = "details"
  /\ pc' = "approvals"
  /\ UNCHANGED <<inputs, resolver, approvers, changed_files, idx, verdicts,
                 validation_failed, result, report>>

\* codeowners.py:40-42, 62-64, 84-86: a failed request ends the process
RequestFails ==
  /\ pc \in {"details", "approvals", "changes"}
  /\ pc' = "exit"
  /\ result' = "exit"
  /\ UNCHANGED <<inputs, resolver, approvers, changed_files, idx, verdicts,
                 validation_failed, report>>

\* the approvals step without the check for an empty list
GetMrApprovals_NoFastFail ==
  /\ pc = "approvals"
  /\ approvers' = ApproversOf(approvals_data)
  /\ pc' = "changes"
  /\ UNCHANGED <<inputs, resolver, changed_files, idx, verdicts, validation_failed,
                 result, report>>

\* codeowners.py:152-155
GetMrApprovals ==
  /\ pc = "approvals"
  /\ approvers' = ApproversOf(approvals_data)
  /\ IF approvers' = <<>>
     THEN pc' = "done" /\ result' = "False" /\ report' = "no_approvals"
     ELSE pc' = "changes" /\ UNCHANGED <<result, report>>
  /\ UNCHANGED <<inputs, resolver, changed_files, idx, verdicts, validation_failed>>

\* codeowners.py:160-170
GetChangedFiles ==
  /\ pc = "changes"
  /\ changed_files' = ChangedFilesOf(changes)
  /\ IF changed_files' = <<>>
     THEN pc' = "done" /\ result' = "True" /\ report' = "no_files"
          /\ UNCHANGED <<idx, validation_failed>>
     ELSE pc' = "file" /\ idx' = 1 /\ validation_failed' = FALSE
          /\ UNCHANGED <<result, report>>
  /\ UNCHANGED <<inputs, resolver, approvers, verdicts>>

\* codeowners.py:172-176 and 120-121: the next file, and the start of its walk
StartFile ==
  /\ pc = "file"
  /\ idx <= Len(changed_files)
  /\ current_path' = Parent(PathOf(changed_files[idx]))
  /\ all_owners' = {}
  /\ walk' = <<>>
  /\ pc' = "walk"
  /\ UNCHANGED <<inputs, reads, diag, approvers, changed_files, idx, verdicts,
                 validation_failed, result, report>>

\* the loop with the nearest manifest shadowing the ones above it
WalkStep_NearestWins ==
  /\ pc = "walk"
  /\ LET name == JoinManifest(current_path)
         r == ReadCodeownersFile(name)
     IN /\ all_owners' = IF all_owners = {} THEN r.owners ELSE all_owners
        /\ reads' = Logged(reads, [name |-> name, dir |-> r.dir])
        /\ diag' = IF r.error THEN diag \cup {name} ELSE diag
  /\ walk' = Logged(walk, current_path)
  /\ IF current_path = PathDot \/ current_path = PathSlash
     THEN pc' = "root" /\ UNCHANGED current_path
     ELSE pc' = "walk" /\ current_path' = Parent(current_path)
  /\ UNCHANGED <<inputs, approvers, changed_files, idx, verdicts,
                 validation_failed, result, report>>

\* codeowners.py:125-135, one iteration of the loop
WalkStep ==
  /\ pc = "walk"
  /\ LET name == JoinManifest(current_path)
         r == ReadCodeownersFile(name)
     IN /\ all_owners' = all_owners \cup r.owners
        /\ reads' = Logged(reads, [name |-> name, dir |-> r.dir])
        /\ diag' = IF r.error THEN diag \cup {name} ELSE diag
  /\ walk' = Logged(walk, current_path)
  /\ IF current_path = PathDot \/ current_path = PathSlash
     THEN pc' = "root" /\ UNCHANGED current_path
     ELSE pc' = "walk" /\ current_path' = Parent(current_path)
  /\ UNCHANGED <<inputs, approvers, changed_files, idx, verdicts,
                 validation_failed, result, report>>

\* the resolution without the closing read of the root manifest
RootRead_Skipped ==
  /\ pc = "root"
  /\ pc' = "verdict"
  /\ UNCHANGED <<inputs, resolver, approvers, changed_files, idx,
                 verdicts, validation_failed, result, report>>

\* codeowners.py:137-141
RootRead ==
  /\ pc = "root"
  /\ LET r == ReadCodeownersFile(RootManifest)
     IN /\ all_owners' = all_owners \cup r.owners
        /\ reads' = Logged(reads, [name |-> RootManifest, dir |-> r.dir])
        /\ diag' = IF r.error THEN diag \cup {RootManifest} ELSE diag
  /\ pc' = "verdict"
  /\ UNCHANGED <<inputs, current_path, walk, approvers, changed_files, idx,
                 verdicts, validation_failed, result, report>>

\* the outcome with a file without owners counted as a failure
VerdictOf_Strict(file_owners, apprs) ==
  IF Range(apprs) \cap file_owners # {} THEN "pass" ELSE "fail"

\* codeowners.py:178-193, the outcome for one file
VerdictOf(file_owners, apprs) ==
  IF file_owners = {} THEN "no_owners"
  ELSE IF Range(apprs) \cap file_owners # {} THEN "pass"
  ELSE "fail"

FileVerdict ==
  /\ pc = "verdict"
  /\ LET v == VerdictOf(all_owners, approvers)
     IN /\ verdicts' = Append(verdicts, [file |-> changed_files[idx],
                                         owners |-> all_owners, verdict |-> v])
        /\ validation_failed' = (validation_failed \/ v = "fail")
  /\ idx' = idx + 1
  /\ pc' = "file"
  /\ UNCHANGED <<inputs, resolver, approvers, changed_files, result, report>>

\* codeowners.py:195-202
Finish ==
  /\ pc = "file"
  /\ idx > Len(changed_files)
  /\ pc' = "done"
  /\ IF validation_failed
     THEN result' = "False" /\ report' = "failed"
     ELSE result' = "True" /\ report' = "passed"
  /\ UNCHANGED <<inputs, resolver, approvers, changed_files, idx, verdicts,
                 validation_failed>>

Next ==
  \/ GetMrDetails
  \/ RequestFails
  \/ GetMrApprovals
  \/ GetChangedFiles
  \/ StartFile
  \/ WalkStep
  \/ RootRead
  \/ FileVerdict
  \/ Finish

Spec == Init /\ [][Next]_vars

\* ------------------------------------------------- the parser run on its own
Alphabet == {"@", "/", "*", "#", " ", "\n", "a"}

InitParse ==
  /\ content \in SeqsUpTo(Alphabet, MaxText)
  /\ owners = {}
  /\ pc = "parse"
  /\ fs = [d \in Tree |-> "absent"]
  /\ approvals_data = <<>>
  /\ changes = <<>>
  /\ approvers = <<>>
  /\ changed_files = <<>>
  /\ idx = 0
  /\ current_path = PathDot
  /\ all_owners = {}
  /\ walk = <<>>
  /\ reads = <<>>
  /\ diag = {}
  /\ verdicts = <<>>
  /\ validation_failed = FALSE
  /\ result = "running"
  /\ report = "none"

\* codeowners.py:94-111 applied to the text
ParseStep ==
  /\ pc = "parse"
  /\ owners' = ParseOwners(content)
  /\ pc' = "parsed"
  /\ UNCHANGED <<fs, approvals_data, changes, content, resolver, approvers,
                 changed_files, idx, verdicts, validation_failed, result, report>>

SpecParse == InitParse /\ [][ParseStep]_vars

\* ================================================================== claims

\* the owners a directory declares: the parsed text of a readable manifest
DeclaredAt(d) ==
  IF d \in Tree /\ fs[d] = "ok" THEN ParseOwners(ManifestText(d)) ELSE {}

\* the directory a joined name denotes, whether or not it exists
RECURSIVE LexResolve(_, _)
LexResolve(cur, segs) ==
  IF segs = <<>> THEN cur
  ELSE LET s == Head(segs)
       IN LexResolve(IF s = "." THEN cur
                     ELSE IF s = ".." THEN (IF cur = <<>> THEN cur ELSE Front(cur))
                     ELSE Append(cur, s),
                     Tail(segs))

\* a repository-relative path string: no leading slash, no ".." segment
RepoRelative(raw) == raw.slashes = 0 /\ raw.segs # <<>> /\ ".." \notin Range(raw.segs)

\* the containing directory of a repository-relative file and its ancestors
\* up to the project directory
AncestorChain(raw) ==
  LET dirs == SelectSeq(Front(raw.segs), LAMBDA s : s # ".")
  IN {ProjectDir \o SubSeq(dirs, 1, k) : k \in 0..Len(dirs)}

ChainOwners(raw) == UNION {DeclaredAt(d) : d \in AncestorChain(raw)}

Returned == pc = "done" /\ report \in {"passed", "failed", "no_files"}

\* C1: with a non-empty approver set, for any changed-file list (the empty one
\* included), validate_approvals returns True iff no file has the verdict
\* fail; a file fails exactly when its owner set is non-empty and disjoint
\* from the approvers, so a file without owners never fails the run.
C1_PassIffNoFileFails ==
  (Returned /\ approvers # <<>>) =>
    /\ Len(verdicts) = Len(changed_files)
    /\ \A i \in 1..Len(verdicts) :
         /\ verdicts[i].file = changed_files[i]
         /\ verdicts[i].verdict = "fail" <=>
              (verdicts[i].owners # {} /\ verdicts[i].owners \cap Range(approvers) = {})
    /\ result \in {"True", "False"}
    /\ result = "True" <=> (\A i \in 1..Len(verdicts) : verdicts[i].verdict # "fail")

C1_Witness ==
  /\ Returned /\ result = "False"
  /\ \E i, j \in 1..Len(verdicts) :
       verdicts[i].verdict = "no_owners" /\ verdicts[j].verdict = "fail"

\* C2: with no approver the run fails at once with the "no approvals" outcome:
\* no manifest is read, no owner is resolved, no file gets a verdict, and the
\* changed-file list is not even looked at.
C2_NoApprovalsFailsFirst ==
  /\ pc \in {"details", "approvals"} => reads = <<>> /\ verdicts = <<>>
  /\ (pc \notin {"details", "approvals", "exit", "parse", "parsed"} /\ approvers = <<>>) =>
       /\ pc = "done" /\ result = "False" /\ report = "no_approvals"
       /\ reads = <<>> /\ walk = <<>> /\ verdicts = <<>> /\ all_owners = {}
       /\ changed_files = <<>>

C2_Witness ==
  /\ pc = "done" /\ report = "no_approvals" /\ approvals_data = <<None>>
  /\ ChangedFilesOf(changes) # <<>>

\* C3: whatever the form and depth of the path, the owners declared in the
\* manifest of the project directory are in the owner set of the file.
C3_RootOwnersIncluded ==
  /\ pc = "verdict" => DeclaredAt(ProjectDir) \subseteq all_owners
  /\ \A i \in 1..Len(verdicts) : DeclaredAt(ProjectDir) \subseteq verdicts[i].owners

C3_Witness ==
  /\ pc = "verdict"
  /\ changed_files[idx].slashes = 1
  /\ DeclaredAt(ProjectDir) # {}
  /\ DeclaredAt(ProjectDir) \subseteq all_owners

\* C4: for a repository-relative path the owner set is exactly the union of
\* the owners declared in the file's directory and in each ancestor up to the
\* project directory: nothing of the chain is shadowed, nothing from outside
\* the chain is added.
C4_UnionOfAncestorChain ==
  /\ (pc = "verdict" /\ RepoRelative(changed_files[idx])) =>
       all_owners = ChainOwners(changed_files[idx])
  /\ \A i \in 1..Len(verdicts) :
       RepoRelative(verdicts[i].file) => verdicts[i].owners = ChainOwners(verdicts[i].file)

C4_Witness ==
  /\ pc = "verdict"
  /\ changed_files[idx] = [slashes |-> 0, segs |-> <<"a", "a", "f">>]
  /\ all_owners = {<<"a">>, <<"b">>, <<"c">>}
  /\ fs[<<>>] = "ok"

\* C5: within one run no directory's manifest is opened twice.
C5_ManifestReadAtMostOnce ==
  \A i, j \in 1..Len(reads) :
    (i # j /\ reads[i].dir # NoEnt) => reads[i].dir # reads[j].dir

\* C6: every manifest the resolution opens lies in the project directory or
\* below it, whatever the form of the changed-file path.
C6_ReadsStayInsideProject ==
  \A i \in 1..Len(reads) : IsPrefix(ProjectDir, LexResolve(<<>>, reads[i].name.segs))

\* C7: the parser returns, over the lines whose trimmed form is non-empty and
\* does not start with '#', and over their whitespace-separated tokens: the
\* token without its leading '@', nothing for a token starting with '/' or
\* '*', and any other token unchanged.
Blank(c) == c \in Whitespace \cup {Newline}

\* the pairs <<i, j>> such that content[i..j] is a maximal run of non-blanks
TokensOf(text) ==
  {t \in (1..Len(text)) \X (1..Len(text)) :
     /\ t[1] <= t[2]
     /\ \A k \in t[1]..t[2] : ~Blank(text[k])
     /\ t[1] = 1 \/ Blank(text[t[1] - 1])
     /\ t[2] = Len(text) \/ Blank(text[t[2] + 1])}

\* the token starting at i stands on a line whose first non-blank is '#'
OnCommentLine(text, i) ==
  \E k \in 1..i :
    /\ text[k] = "#"
    /\ \A m \in k..i : text[m] # Newline
    /\ k = 1 \/ Blank(text[k - 1])
    /\ \A m \in 1..(k - 1) :
         (\A n \in m..(k - 1) : text[n] # Newline) => text[m] \in Whitespace

ClaimedOwners(text) ==
  UNION {LET tok == SubSeq(text, t[1], t[2])
         IN IF tok[1] = "@" THEN {SubSeq(tok, 2, Len(tok))}
            ELSE IF tok[1] \in {"/", "*"} THEN {}
            ELSE {tok} :
         t \in {u \in TokensOf(text) : ~OnCommentLine(text, u[1])}}

C7_ParserOwnerSet == pc = "parsed" => owners = ClaimedOwners(content)

C7_Witness ==
  /\ pc = "parsed"
  /\ content = <<"/", "*", " ", "@", "a">>
  /\ owners = {<<"a">>}

\* C8: a manifest that exists but cannot be read adds no owner and does not
\* stop the run: the owners of the other directories are kept, the run goes
\* on to its pass/fail result, and the failure is printed, while a manifest
\* that is simply absent prints nothing.
QueriedDirs == {OsResolve(JoinManifest(walk[i])) : i \in 1..Len(walk)} \cup {ProjectDir}

C8_ReadErrorDegrades ==
  /\ diag = {reads[i].name : i \in {k \in 1..Len(reads) :
                 reads[k].dir # NoEnt /\ fs[reads[k].dir] = "error"}}
  /\ pc = "verdict" => all_owners = UNION {DeclaredAt(d) : d \in QueriedDirs}
  /\ diag # {} =>
       /\ pc \in {"walk", "root", "verdict", "file", "done"}
       /\ pc = "done" => report \in {"passed", "failed"} /\ result \in {"True", "False"}

C8_Witness ==
  /\ pc = "done" /\ report = "passed"
  /\ diag = {RootManifest, JoinManifest(PathDot)}
  /\ \E i \in 1..Len(reads) :
       /\ reads[i].dir = NoEnt \/ fs[reads[i].dir] = "absent"
       /\ reads[i].name \notin diag
  /\ \E i \in 1..Len(verdicts) : verdicts[i].owners = {<<"b">>}

\* C9 as stated: every entry that has both an old and a new path gets two
\* per-file checks, one per path.
BothPaths(change) == Truthy(change.new_path) /\ Truthy(change.old_path)

C9_TwoChecksPerEntry ==
  (Returned /\ report # "no_files") =>
    \A k \in 1..Len(changes) :
      BothPaths(changes[k]) =>
        \E i, j \in 1..Len(verdicts) :
          /\ i # j
          /\ verdicts[i].file = changes[k].new_path
          /\ verdicts[j].file = changes[k].old_path

\* C9, amended: an entry whose old path differs from its new path gets two
\* per-file checks, the new path's and then the old path's, each with the
\* owners of its own ancestor chain and each failing the run on its own.
C9_RenameTwoChecks ==
  /\ pc \notin {"details", "approvals", "changes", "exit", "parse", "parsed"}
       /\ approvers # <<>> =>
       \A k \in 1..Len(changes) :
         (BothPaths(changes[k]) /\ changes[k].old_path # changes[k].new_path) =>
           \E i \in 1..(Len(changed_files) - 1) :
             /\ changed_files[i] = changes[k].new_path
             /\ changed_files[i + 1] = changes[k].old_path
             /\ Len(ChangedFilesOf(SubSeq(changes, 1, k))) = i + 1
  /\ (Returned /\ report # "no_files") =>
       /\ Len(verdicts) = Len(changed_files)
       /\ \A i \in 1..Len(verdicts) :
            /\ verdicts[i].file = changed_files[i]
            /\ RepoRelative(verdicts[i].file) =>
                 verdicts[i].owners = ChainOwners(verdicts[i].file)
            /\ verdicts[i].verdict = VerdictOf(verdicts[i].owners, approvers)
            /\ verdicts[i].verdict = "fail" => result = "False"

C9_Witness ==
  /\ Returned /\ result = "False"
  /\ changes = <<[new_path |-> [slashes |-> 0, segs |-> <<"a", "f">>],
                  old_path |-> [slashes |-> 0, segs |-> <<"f">>]]>>
  /\ Len(verdicts) = 2
  /\ verdicts[1].verdict = "pass" /\ verdicts[1].owners = {<<"a">>, <<"b">>}
  /\ verdicts[2].verdict = "fail" /\ verdicts[2].owners = {<<"a">>}

\* C10: the walk of every path ends: it queries the containing directory,
\* then each parent once, child to parent, and stops at the first directory
\* equal to "." or "/", so it makes no more iterations than the path has
\* segments (one for a file of the root directory).
C10_WalkEndsAtRoot ==
  pc \in {"walk", "root", "verdict"} =>
    LET start == PathOf(changed_files[idx])
    IN /\ \A i \in 1..Len(walk) :
            /\ i = 1 => walk[i] = Parent(start)
            /\ i > 1 => walk[i] = Parent(walk[i - 1]) /\ walk[i] # walk[i - 1]
            /\ i > 1 => walk[i - 1] \notin {PathDot, PathSlash}
       /\ Len(walk) <= IF start.parts = <<>> THEN 1 ELSE Len(start.parts)
       /\ pc # "walk" => walk # <<>> /\ walk[Len(walk)] \in {PathDot, PathSlash}

====
